---- MODULE Spec2Model ----
(***************************************************************************)
(* luaamath.c: the Lua binding of amath_to_mathml.                         *)
(*                                                                         *)
(* The module models one Lua state that loads the binding (luaopen_amath)  *)
(* and calls amath.to_mathml (lua_amath_to_mathml) with arbitrary          *)
(* arguments.  Each C statement of lua_amath_to_mathml is one action, and  *)
(* pc is the position inside the running call.  What lies outside the      *)
(* file is modelled by its documented contract:                            *)
(*   - the Lua C API (luaL_checkstring, luaL_error, lua_pushstring,        *)
(*     luaL_register / lua_newtable + luaL_setfuncs) as in the Lua         *)
(*     reference manual.  The memory error of the runtime is modelled for  *)
(*     lua_pushstring, the allocation made while the call owns a buffer of *)
(*     the converter; the other API calls are taken to find the memory     *)
(*     they need;                                                          *)
(*   - amath_to_mathml as a nondeterministic function returning NULL or a  *)
(*     freshly malloc'ed NUL-terminated buffer;                            *)
(*   - malloc/free as a heap of buffers with a state and a free count.     *)
(* Strings are sequences of byte values; a C string is the part of the     *)
(* bytes before the first NUL.                                             *)
(***************************************************************************)
EXTENDS Integers, Sequences, FiniteSets, TLC

\* ------------------------------------------------------------------ bounds
\* longest Lua string passed as argument
MaxLen == 2
\* longest result the external converter returns
MaxRes == 1
\* number of amath.to_mathml calls in one run
MaxCalls == 3

\* --------------------------------------------------------------- constants
\* the terminator of a C string
NUL == 0

\* bytes of the argument strings: NUL and 'x'
InputBytes == {NUL, 120}
\* bytes of the converter's results: 'm'
ResultBytes == {109}
\* numbers passed as argument
Numbers == {7, 42}
\* the values LUA_VERSION_NUM takes in the builds modelled: Lua 5.1 and Lua 5.4
LuaVersions == {501, 504}

SeqsUpTo(S, n) == UNION {[1..k -> S] : k \in 0..n}

\* ------------------------------------------------------------ Lua values
Val(t, n, s) == [t |-> t, n |-> n, s |-> s]
NilVal == Val("nil", 0, <<>>)
StrVal(s) == Val("string", 0, s)
TableVal(id) == Val("table", id, <<>>)

StringArgs == {StrVal(s) : s \in SeqsUpTo(InputBytes, MaxLen)}
NumberArgs == {Val("number", n, <<>>) : n \in Numbers}
OtherArgs == {Val("none", 0, <<>>), NilVal, Val("boolean", 0, <<>>),
              Val("boolean", 1, <<>>), TableVal(0)}
Args == StringArgs \cup NumberArgs \cup OtherArgs

\* ------------------------------------------------------------- C strings
\* The C string a char pointer at bytes b (followed by Lua's terminating NUL)
\* denotes: strlen stops at the first NUL.
CStr(b) ==
    LET z == {i \in 1..Len(b) : b[i] = NUL}
    IN  IF z = {} THEN b
        ELSE SubSeq(b, 1, (CHOOSE i \in z : \A j \in z : i <= j) - 1)

\* lua_Number / lua_Integer to string for a non-negative integer value
\* ("%.14g" in Lua 5.1, "%d" from Lua 5.3 on): its decimal digits.
RECURSIVE NumToStr(_)
NumToStr(n) == IF n < 10 THEN <<48 + n>> ELSE NumToStr(n \div 10) \o <<48 + (n % 10)>>

\* needle occurs in hay as a contiguous run of bytes
Contains(hay, needle) ==
    \E i \in 0..(Len(hay) - Len(needle)) :
        SubSeq(hay, i + 1, i + Len(needle)) = needle

\* ---------------------------------------------------------- C pointers
Uninit == [st |-> "uninit", bytes |-> <<>>]
NullPtr == [st |-> "null", bytes |-> <<>>]
Ptr(b) == [st |-> "ptr", bytes |-> b]
UninitBuf == [st |-> "uninit", buf |-> 0]
NullBuf == [st |-> "null", buf |-> 0]
BufPtr(b) == [st |-> "ptr", buf |-> b]

\* --------------------------------------------------------------- outcomes
NoOutcome ==
    [kind |-> "none", err |-> "none", site |-> "none", msg |-> <<>>,
     got |-> "", values |-> <<>>]
Returned(vals) ==
    [kind |-> "return", err |-> "none", site |-> "return", msg |-> <<>>,
     got |-> "", values |-> vals]
Raised(err, site, msg, got) ==
    [kind |-> "error", err |-> err, site |-> site, msg |-> msg,
     got |-> got, values |-> <<>>]

\* "not enough memory": the message of the memory error the Lua runtime raises
MemErrMsg ==
    <<110, 111, 116, 32, 101, 110, 111, 117, 103, 104, 32, 109, 101, 109, 111,
      114, 121>>
HostError(site) == Raised("HostError", site, MemErrMsg, "")

VARIABLES
    luaVersion,   \* LUA_VERSION_NUM of the build
    globalAmath,  \* the host's global variable amath
    loadedAmath,  \* the host's package.loaded.amath
    tables,       \* the host's tables: id -> set of <<key, value>>
    registered,   \* a luaopen_amath call has returned the module table
    openRet,      \* outcome of the last luaopen_amath call
    pc,           \* position in lua_amath_to_mathml, "idle" outside a call
    arg,          \* first argument of the current (last) call
    stack,        \* the call's Lua stack frame
    asciimath,    \* local: const char *asciimath
    mathml,       \* local: char *mathml
    heap,         \* buffers malloc'ed by the converter, by address
    outcome,      \* how the current (last) call ended
    nCalls,       \* calls of amath.to_mathml started
    convIn,       \* arguments of the converter calls made by the call
    convRes,      \* what the converter returned to the call
    hostErr,      \* API call of this call in which the host ran out of memory
    events        \* statements the call has executed, in order

vars == <<luaVersion, globalAmath, loadedAmath, tables, registered, openRet,
          pc, arg, stack, asciimath, mathml, heap, outcome, nCalls,
          convIn, convRes, hostErr, events>>

hostVars == <<luaVersion, globalAmath, loadedAmath, tables, registered, openRet>>

\* ------------------------------------------------- module registration
\* a function table holding the sentinel alone
amathlibEmpty == << >>

\* static const luaL_Reg amathlib[]: the entries before the {NULL, NULL} sentinel
amathlib == << [name |-> "to_mathml", func |-> "lua_amath_to_mathml"] >>

\* t[k] = v on a table held as a set of <<key, value>> pairs
SetField(t, k, v) == {e \in t : e[1] # k} \cup {<<k, v>>}

\* luaL_setfuncs(L, l, 0): t[l[i].name] = l[i].func for every entry of l
RECURSIVE luaL_setfuncs(_, _)
luaL_setfuncs(t, l) ==
    IF l = <<>> THEN t
    ELSE luaL_setfuncs(SetField(t, Head(l).name, Head(l).func), Tail(l))

\* the tables of the host: one it may hold before the module is loaded, the
\* one Lua 5.1's luaL_register creates, and the one lua_newtable creates
HostTable == TableVal(1)
ModuleTable == TableVal(2)
FreshTable == TableVal(3)

\* "name conflict for module 'amath'"
NameConflictMsg ==
    <<110, 97, 109, 101, 32, 99, 111, 110, 102, 108, 105, 99, 116, 32, 102, 111,
      114, 32, 109, 111, 100, 117, 108, 101, 32, 39, 97, 109, 97, 116, 104, 39>>

\* luaL_register(L, "amath", amathlib) of the build.
\*   LUA_VERSION_NUM > 501: the macro, lua_newtable(L); luaL_setfuncs(L, reg, 0).
\*   Lua 5.1: lauxlib's luaL_register with a library name: the table is
\*   package.loaded.amath if that is a table, else the global amath (created
\*   when nil, a name conflict when it is no table), stored in package.loaded.
luaL_register(ver, g, ld, tbs) ==
    IF ver > 501 THEN
        [out |-> Returned(<<FreshTable>>), global |-> g, loaded |-> ld,
         tables |-> [tbs EXCEPT ![FreshTable.n] = luaL_setfuncs({}, amathlib)]]
    ELSE IF ld.t # "table" /\ g.t \notin {"nil", "table"} THEN
        [out |-> Raised("NameConflict", "luaL_register", NameConflictMsg, ""),
         global |-> g, loaded |-> ld, tables |-> tbs]
    ELSE
        LET t == IF ld.t = "table" THEN ld
                 ELSE IF g.t = "table" THEN g ELSE ModuleTable
        IN  [out |-> Returned(<<t>>),
             global |-> IF ld.t # "table" /\ g.t = "nil" THEN t ELSE g,
             loaded |-> t,
             tables |-> [tbs EXCEPT ![t.n] = luaL_setfuncs(tbs[t.n], amathlib)]]

\* LUALIB_API int luaopen_amath(lua_State *L): luaL_register, then return 1
\* (the value on top of the stack).
luaopen_amath ==
    /\ pc = "idle"
    /\ LET r == luaL_register(luaVersion, globalAmath, loadedAmath, tables)
       IN  /\ globalAmath' = r.global
           /\ loadedAmath' = r.loaded
           /\ tables' = r.tables
           /\ openRet' = r.out
           /\ registered' = (registered \/ r.out.kind = "return")
    /\ UNCHANGED <<luaVersion, pc, arg, stack, asciimath, mathml, heap,
                   outcome, nCalls, convIn, convRes, hostErr, events>>

\* --------------------------------------------------------- the Lua C API
\* lua_type(L, i) as a type name; an index above the top is LUA_TNONE
lua_type(stk, i) == IF i > Len(stk) THEN "none" ELSE stk[i].t
luaL_typename(stk, i) == IF lua_type(stk, i) = "none" THEN "no value" ELSE lua_type(stk, i)

\* luaL_optstring(L, i, ""): as luaL_checkstring, but a missing or nil
\* argument stands for the empty string
luaL_optstring(stk, i) ==
    CASE lua_type(stk, i) = "string" ->
            [raise |-> FALSE, ptr |-> Ptr(stk[i].s), stack |-> stk]
      [] lua_type(stk, i) = "number" ->
            [raise |-> FALSE, ptr |-> Ptr(NumToStr(stk[i].n)),
             stack |-> [stk EXCEPT ![i] = StrVal(NumToStr(stk[i].n))]]
      [] lua_type(stk, i) \in {"none", "nil"} ->
            [raise |-> FALSE, ptr |-> Ptr(<<>>), stack |-> stk]
      [] OTHER ->
            [raise |-> TRUE, ptr |-> NullPtr, stack |-> stk]

\* lua_tostring(L, i): as luaL_checkstring, but NULL instead of an error
lua_tostring(stk, i) ==
    CASE lua_type(stk, i) = "string" ->
            [raise |-> FALSE, ptr |-> Ptr(stk[i].s), stack |-> stk]
      [] lua_type(stk, i) = "number" ->
            [raise |-> FALSE, ptr |-> Ptr(NumToStr(stk[i].n)),
             stack |-> [stk EXCEPT ![i] = StrVal(NumToStr(stk[i].n))]]
      [] OTHER ->
            [raise |-> FALSE, ptr |-> NullPtr, stack |-> stk]

\* luaL_checkstring(L, i): a string is returned as it is; a number is converted
\* in place to a string (lua_tolstring); anything else raises the argument
\* error.  It never returns NULL.
luaL_checkstring(stk, i) ==
    CASE lua_type(stk, i) = "string" ->
            [raise |-> FALSE, ptr |-> Ptr(stk[i].s), stack |-> stk]
      [] lua_type(stk, i) = "number" ->
            [raise |-> FALSE, ptr |-> Ptr(NumToStr(stk[i].n)),
             stack |-> [stk EXCEPT ![i] = StrVal(NumToStr(stk[i].n))]]
      [] OTHER ->
            [raise |-> TRUE, ptr |-> NullPtr, stack |-> stk]

\* "amath.to_mathml: expected string argument"
ExpectedStringMsg ==
    <<97, 109, 97, 116, 104, 46, 116, 111, 95, 109, 97, 116, 104, 109, 108, 58,
      32, 101, 120, 112, 101, 99, 116, 101, 100, 32, 115, 116, 114, 105, 110,
      103, 32, 97, 114, 103, 117, 109, 101, 110, 116>>

\* "amath.to_mathml: conversion failed for input: "
ConversionFailedPrefix ==
    <<97, 109, 97, 116, 104, 46, 116, 111, 95, 109, 97, 116, 104, 109, 108, 58,
      32, 99, 111, 110, 118, 101, 114, 115, 105, 111, 110, 32, 102, 97, 105,
      108, 101, 100, 32, 102, 111, 114, 32, 105, 110, 112, 117, 116, 58, 32>>

\* a message that also carries the number of the call
ConversionFailedMsgCounted(p) ==
    ConversionFailedPrefix \o <<48 + nCalls>> \o CStr(p.bytes)

\* The message luaL_error builds from "...conversion failed for input: %s":
\* luaL_where(L, 1) is empty for a C function, and %s copies the C string.
ConversionFailedMsg(p) == ConversionFailedPrefix \o CStr(p.bytes)

\* lua_pushlstring(L, s, strlen(s) - 1): the last byte is lost
lua_pushstringShort(bytes) ==
    StrVal(IF CStr(bytes) = <<>> THEN <<>>
           ELSE SubSeq(CStr(bytes), 1, Len(CStr(bytes)) - 1))

\* lua_pushstring(L, s): the Lua string made of the bytes of the C string s
lua_pushstring(bytes) == StrVal(CStr(bytes))

\* return n: the n values on top of the stack are the call's results
ReturnValues(stk, n) == SubSeq(stk, Len(stk) - n + 1, Len(stk))

\* free(mathml) moved before lua_pushstring(L, mathml)
NextStepFreeFirst(p) ==
    CASE p = "convcheck" -> "free"
      [] p = "free" -> "pushstring"
      [] p = "pushstring" -> "return"

\* the statement after each of the statements of lines 65-76
NextStep(p) ==
    CASE p = "convcheck" -> "pushstring"
      [] p = "pushstring" -> "free"
      [] p = "free" -> "return"

\* amath_to_mathml(s): NULL, or a malloc'ed buffer holding a C string
ConverterResults ==
    {[null |-> TRUE, bytes |-> <<>>]} \cup
    {[null |-> FALSE, bytes |-> r] : r \in SeqsUpTo(ResultBytes, MaxRes)}
NotCalled == [st |-> "notcalled", bytes |-> <<>>, buf |-> 0]
GotNull == [st |-> "null", bytes |-> <<>>, buf |-> 0]
GotBuffer(r, b) == [st |-> "buffer", bytes |-> r, buf |-> b]

\* ------------------------------------------------ lua_amath_to_mathml
\* An error raised inside the call (lua_error's longjmp): the call ends
\* there, its frame is gone, nothing is returned.
Raise(o, site) ==
    /\ pc' = "idle"
    /\ outcome' = o
    /\ stack' = <<>>
    /\ asciimath' = Uninit
    /\ mathml' = UninitBuf
    /\ hostErr' = IF o.err = "HostError" THEN site ELSE hostErr
    /\ events' = Append(events, "raise")

\* luaL_error(L, fmt, ...): builds the message and raises it
luaL_error(err, site, msg) == Raise(Raised(err, site, msg, ""), site)

\* the host calls amath.to_mathml(a): a fresh frame holding the argument
Call ==
    /\ pc = "idle"
    /\ registered
    /\ nCalls < MaxCalls
    /\ \E a \in Args :
        /\ arg' = a
        /\ stack' = IF a.t = "none" THEN <<>> ELSE <<a>>
    /\ pc' = "checkstring"
    /\ asciimath' = Uninit
    /\ mathml' = UninitBuf
    /\ outcome' = NoOutcome
    /\ nCalls' = nCalls + 1
    /\ convIn' = <<>>
    /\ convRes' = NotCalled
    /\ hostErr' = "none"
    /\ events' = <<>>
    /\ UNCHANGED <<hostVars, heap>>

\* asciimath = luaL_checkstring(L, 1);
CheckString ==
    /\ pc = "checkstring"
    /\ LET r == luaL_checkstring(stack, 1)
       IN  IF r.raise
            THEN Raise(Raised("ArgumentError", "luaL_checkstring", <<>>,
                              luaL_typename(stack, 1)), "luaL_checkstring")
            ELSE /\ asciimath' = r.ptr
                 /\ stack' = r.stack
                 /\ pc' = "nullcheck"
                 /\ events' = Append(events, "checkstring")
                 /\ UNCHANGED <<mathml, outcome, hostErr>>
    /\ UNCHANGED <<hostVars, arg, heap, nCalls, convIn, convRes>>

\* if (!asciimath) return luaL_error(L, "amath.to_mathml: expected string argument");
NullCheck ==
    /\ pc = "nullcheck"
    /\ IF asciimath.st = "null"
       THEN luaL_error("ArgumentError", "nullcheck", ExpectedStringMsg)
       ELSE /\ pc' = "convert"
            /\ events' = Append(events, "nullcheck")
            /\ UNCHANGED <<stack, asciimath, mathml, outcome, hostErr>>
    /\ UNCHANGED <<hostVars, arg, heap, nCalls, convIn, convRes>>

\* mathml = amath_to_mathml(asciimath);
Convert ==
    /\ pc = "convert"
    /\ \E res \in ConverterResults :
        IF res.null
        THEN /\ mathml' = NullBuf
             /\ convRes' = GotNull
             /\ heap' = heap
        ELSE /\ mathml' = BufPtr(Len(heap) + 1)
             /\ convRes' = GotBuffer(res.bytes, Len(heap) + 1)
             /\ heap' = Append(heap, [state |-> "live", bytes |-> res.bytes \o <<NUL>>,
                                      frees |-> 0])
    /\ convIn' = Append(convIn, [null |-> asciimath.st # "ptr",
                                 bytes |-> CStr(asciimath.bytes)])
    /\ pc' = "convcheck"
    /\ events' = Append(events, "convert")
    /\ UNCHANGED <<hostVars, arg, stack, asciimath, outcome, nCalls, hostErr>>

\* a failed conversion is tried again instead of reported
ConvCheckRetry ==
    /\ pc = "convcheck"
    /\ pc' = IF mathml.st = "null" THEN "convert" ELSE NextStep("convcheck")
    /\ events' = Append(events, "convcheck")
    /\ UNCHANGED <<hostVars, arg, stack, asciimath, mathml, heap, outcome,
                   nCalls, convIn, convRes, hostErr>>

\* if (!mathml) return luaL_error(L, "...conversion failed for input: %s", asciimath);
ConvCheck ==
    /\ pc = "convcheck"
    /\ IF mathml.st = "null"
       THEN luaL_error("ConversionError", "convcheck", ConversionFailedMsg(asciimath))
       ELSE /\ pc' = NextStep("convcheck")
            /\ events' = Append(events, "convcheck")
            /\ UNCHANGED <<stack, asciimath, mathml, outcome, hostErr>>
    /\ UNCHANGED <<hostVars, arg, heap, nCalls, convIn, convRes>>

\* lua_pushstring(L, mathml);  reads the buffer and allocates the Lua string,
\* or raises the memory error.  A freed buffer reads as any bytes.
PushString ==
    /\ pc = "pushstring"
    /\ \E oom \in BOOLEAN :
        IF oom THEN Raise(HostError("lua_pushstring"), "lua_pushstring")
        ELSE /\ \E b \in (IF heap[mathml.buf].state = "live"
                          THEN {heap[mathml.buf].bytes}
                          ELSE {r \o <<NUL>> : r \in SeqsUpTo(ResultBytes, MaxRes)}) :
                    stack' = Append(stack, lua_pushstring(b))
             /\ pc' = NextStep("pushstring")
             /\ events' = Append(events, IF heap[mathml.buf].state = "live"
                                         THEN "pushstring" ELSE "read_freed")
             /\ UNCHANGED <<asciimath, mathml, outcome, hostErr>>
    /\ UNCHANGED <<hostVars, arg, heap, nCalls, convIn, convRes>>

\* free(mathml);
Free ==
    /\ pc = "free"
    /\ heap' = [heap EXCEPT ![mathml.buf] =
                    [state |-> "freed", bytes |-> <<>>, frees |-> @.frees + 1]]
    /\ pc' = NextStep("free")
    /\ events' = Append(events, "free")
    /\ UNCHANGED <<hostVars, arg, stack, asciimath, mathml, outcome, nCalls,
                   convIn, convRes, hostErr>>

\* return 1;
Return ==
    /\ pc = "return"
    /\ outcome' = Returned(ReturnValues(stack, 1))
    /\ pc' = "idle"
    /\ stack' = <<>>
    /\ asciimath' = Uninit
    /\ mathml' = UninitBuf
    /\ events' = Append(events, "return")
    /\ UNCHANGED <<hostVars, arg, heap, nCalls, convIn, convRes, hostErr>>

\* ----------------------------------------------------------- the system
Init ==
    /\ luaVersion \in LuaVersions
    /\ globalAmath \in {NilVal, Val("boolean", 1, <<>>), HostTable}
    /\ loadedAmath \in {NilVal, HostTable}
    /\ tables = [i \in 1..3 |-> IF i = HostTable.n THEN {<<"other", "hostfn">>} ELSE {}]
    /\ registered = FALSE
    /\ openRet = NoOutcome
    /\ pc = "idle"
    /\ arg = NilVal
    /\ stack = <<>>
    /\ asciimath = Uninit
    /\ mathml = UninitBuf
    /\ heap = <<>>
    /\ outcome = NoOutcome
    /\ nCalls = 0
    /\ convIn = <<>>
    /\ convRes = NotCalled
    /\ hostErr = "none"
    /\ events = <<>>

Next ==
    \/ luaopen_amath
    \/ Call
    \/ CheckString
    \/ NullCheck
    \/ Convert
    \/ ConvCheck
    \/ PushString
    \/ Free
    \/ Return

Spec == Init /\ [][Next]_vars

\* ------------------------------------------------------------ properties
\* a call of amath.to_mathml has ended and no other has started
Ended == pc = "idle" /\ outcome.kind # "none"
\* the buffers of the converter that are allocated and not freed
LiveBuffers == {b \in 1..Len(heap) : heap[b].state = "live"}
ToMathmlEntry == <<"to_mathml", "lua_amath_to_mathml">>

C2_NullRaisesWithInput ==
    (Ended /\ arg.t = "string" /\ convRes.st = "null") =>
        /\ outcome.kind = "error"
        /\ outcome.err = "ConversionError"
        /\ outcome.values = <<>>
        /\ Contains(outcome.msg, arg.s)
        /\ \A i \in 1..Len(events) : events[i] # "free"

\* C3, as stated: when the converter returns a buffer holding r for a string
\* argument, the call raises nothing and returns exactly one value, the Lua
\* string r.
C3_ReturnsResult ==
    (Ended /\ arg.t = "string" /\ convRes.st = "buffer") =>
        outcome = Returned(<<StrVal(convRes.bytes)>>)

\* C3, amended: in that case the call returns exactly one value, the Lua
\* string r, unless lua_pushstring raised the memory error of the runtime,
\* which is then what the call raises.
C3_ReturnsResultOrHostError ==
    (Ended /\ arg.t = "string" /\ convRes.st = "buffer") =>
        IF hostErr = "none"
        THEN outcome = Returned(<<StrVal(convRes.bytes)>>)
        ELSE outcome = HostError("lua_pushstring")

C3_Witness ==
    /\ Ended
    /\ arg = StrVal(<<120>>)
    /\ convRes.st = "buffer"
    /\ convRes.bytes = <<109>>
    /\ outcome = Returned(<<StrVal(<<109>>)>>)

\* C4, as stated: a call on an input the converter accepts calls the converter
\* once and frees the returned buffer once; between calls no buffer is live,
\* and no buffer is ever freed twice.
C4_OneAllocOneFree ==
    /\ (Ended /\ convRes.st = "buffer") =>
            /\ Len(convIn) = 1
            /\ heap[convRes.buf].frees = 1
    /\ pc = "idle" => LiveBuffers = {}
    /\ \A b \in 1..Len(heap) : heap[b].frees <= 1

\* C5, as stated: whenever no call is in progress, no buffer of the converter
\* is live.
C5_NoLiveBufferOutsideCall == pc = "idle" => LiveBuffers = {}

\* What the specification gives as the outcome for argument a and converter
\* result c.
SpecOutcome(a, c) ==
    IF a.t \notin {"string", "number"}
    THEN Raised("ArgumentError", "luaL_checkstring", <<>>,
                IF a.t = "none" THEN "no value" ELSE a.t)
    ELSE IF c.st = "null"
    THEN Raised("ConversionError", "convcheck",
                ConversionFailedPrefix \o
                    CStr(IF a.t = "number" THEN NumToStr(a.n) ELSE a.s), "")
    ELSE Returned(<<StrVal(c.bytes)>>)

C7_AllOrNothing ==
    /\ Len(convIn) <= 1
    /\ Cardinality({i \in 1..Len(events) : events[i] = "convert"}) <= 1
    /\ outcome.err \in {"ArgumentError", "ConversionError"} =>
            /\ pc = "idle"
            /\ outcome.values = <<>>
            /\ events # <<>>
            /\ events[Len(events)] = "raise"
            /\ Cardinality({i \in 1..Len(events) : events[i] = "raise"}) = 1

C7_Witness ==
    /\ Ended
    /\ outcome.err = "ConversionError"
    /\ Len(convIn) = 1
    /\ events = <<"checkstring", "nullcheck", "convert", "raise">>

C9_CopyThenFreeThenReturn ==
    /\ \A i \in 1..Len(events) : events[i] # "read_freed"
    /\ outcome.kind = "return" =>
            /\ events = <<"checkstring", "nullcheck", "convert", "convcheck",
                          "pushstring", "free", "return">>
            /\ outcome.values = <<StrVal(convRes.bytes)>>
            /\ heap[convRes.buf].state = "freed"
            /\ heap[convRes.buf].frees = 1

C9_Witness ==
    /\ outcome.kind = "return"
    /\ outcome.values = <<StrVal(<<109>>)>>
    /\ heap[convRes.buf].state = "freed"

\* C10: the null check never fires: past luaL_checkstring the pointer is not
\* NULL, no error carries "expected string argument", every ArgumentError
\* comes from luaL_checkstring, and the converter is never called with NULL.
C10_NullCheckUnreachable ==
    /\ pc \in {"nullcheck", "convert", "convcheck", "pushstring", "free", "return"}
            => asciimath.st = "ptr"
    /\ outcome.site # "nullcheck"
    /\ outcome.msg # ExpectedStringMsg
    /\ outcome.err = "ArgumentError" => outcome.site = "luaL_checkstring"
    /\ \A i \in 1..Len(convIn) : ~convIn[i].null

C10_Witness ==
    /\ pc = "convert"
    /\ arg.t = "number"
    /\ asciimath = Ptr(NumToStr(arg.n))
====
